---------------------------- MODULE Spec2Model ----------------------------
(***************************************************************************)
(* A model of neurosynthplus:                                              *)
(*   gui/globals.py  - Global: the status bar and the busy/ready gate      *)
(*   src/metaplus.py - NsInfo.shorten_expr, MetaAnalysisPlus.Info,         *)
(*                     MetaAnalysisPlus.mean and .conjunction              *)
(* Three specifications share the variables: Spec (the status gate with    *)
(* its threads), SpecMeta and SpecInfo (the pure operations, applied to    *)
(* inputs drawn from bounded sets).                                        *)
(***************************************************************************)
EXTENDS Integers, Sequences, FiniteSets, TLC

VARIABLES
    \* ---- gui/globals.py: Global
    status,          \* self.status
    is_ready,        \* self.is_ready
    has_error,       \* self.has_error
    text_color,      \* fg colour of self.statusbar_label
    dataset,         \* self.dataset
    pending,         \* back_to_prev callbacks registered with statusbar.after, oldest first
    pc,              \* position of the loader thread and of every task
    \* ---- observation (history) variables
    call,            \* the most recent operation: its arguments, its return value, is_ready before it
    accepted_status, \* the status given by the most recent accepted update_status call
    held,            \* for every callback of pending: the threads that kept the app busy when
                     \* it was registered and have not reported since
    \* ---- src/metaplus.py: one call of mean or conjunction
    meta_list,       \* argument: the list of analyses, each a record [info, images]
    image_name,      \* argument of conjunction
    lower_thr,       \* argument of conjunction (None or a number)
    upper_thr,       \* argument of conjunction (None or a number)
    conjunction,     \* conjunction's local variable of that name, once assigned
    mean_imgs,       \* mean's local variable of that name, once assigned
    result,          \* how the call ended: nothing yet, an exception, or the returned object
    mpc,             \* position inside the call
    \* ---- src/metaplus.py: one MetaAnalysisPlus.Info object
    info,            \* the mapping the Info holds
    name             \* its attribute name

guiVars  == <<status, is_ready, has_error, text_color, dataset, pending, pc, accepted_status>>
metaVars == <<meta_list, image_name, lower_thr, upper_thr, conjunction, mean_imgs, result, mpc>>
infoVars == <<info, name>>
vars     == <<guiVars, call, held, metaVars, infoVars>>

None == "None"

(***************************************************************************)
(* Bounds of the model.                                                    *)
(***************************************************************************)
NumTasks    == 2   \* user tasks that may be requested concurrently
MaxPending  == 2   \* back_to_prev callbacks waiting at the same time
NumVoxels   == 2   \* voxels of an image
MaxConjList == 2   \* longest meta_list given to conjunction
MaxMeanList == 3   \* longest meta_list given to mean
Prec        == 3   \* significant bits of the floating-point format of the voxels
MaxExprLen  == 3   \* characters of an expression

(***************************************************************************)
(* gui/globals.py                                                          *)
(***************************************************************************)
Tasks   == 1..NumTasks
Loader  == 0
Warning == "Another task is running... Please try again later"

NoCall == [op |-> "none"]

\* The values Global.__init__ gives the fields.  history (an append-only log
\* that nothing in the source reads) and the padded/truncated label text are
\* not represented; the label's colour is.
GlobalInit ==
    /\ status = "Ready"
    /\ is_ready = FALSE
    /\ has_error = FALSE
    /\ text_color = "#d6d6d6"
    /\ dataset = None
    /\ pending = << >>
    /\ pc = [t \in {Loader} \cup Tasks |-> IF t = Loader THEN "start" ELSE "idle"]
    /\ accepted_status = "Ready"

\* (observation) The threads that keep the app busy: the loader while it
\* loads, and every task between its accepted request and its report.
Busy == {t \in Tasks : pc[t] = "running"} \cup
        (IF pc[Loader] \in {"loading", "parsed", "failed"} THEN {Loader} ELSE {})

\* (observation) held once thread t has reported.
Reported(t) == [i \in DOMAIN held |-> held[i] \ {t}]

\* Global._update_status(status, is_ready, is_error): not thread safe, always
\* called with status_mutex held.
_update_status(s, ready, err) ==
    /\ status' = s
    /\ has_error' = err
    /\ text_color' = IF err THEN "#ff0000" ELSE IF ready THEN "#90ee90" ELSE "#e3e3e3"

\* The branch of update_status that takes the request.
Accept(s, ready, err) ==
    /\ _update_status(s, ready, err)
    /\ is_ready' = ready
    /\ pending' = pending
    /\ accepted_status' = s

\* The branch of update_status that declines it: prev is taken before the
\* warning is shown, and back_to_prev(*prev) is registered with after(2000, ...).
Decline ==
    /\ _update_status(Warning, FALSE, TRUE)
    /\ is_ready' = is_ready
    /\ pending' = Append(pending, [status |-> status, has_error |-> has_error])
    /\ accepted_status' = accepted_status

\* Mutant for C1: the gate forgets user_op, so a busy app also turns away the
\* running task's own updates.
Accepted_ignoring_user_op(user_op) == is_ready

\* Whether update_status takes a request: the condition of its if statement.
Accepted(user_op) == (~user_op) \/ is_ready

\* Global.update_status(status, is_ready, is_error, user_op).  The critical
\* section runs under status_mutex, so it is one step; the return value is
\* not bool(prev), which is False exactly in the declining branch.
update_status(s, ready, err, user_op) ==
    /\ Accepted(user_op) \/ Len(pending) < MaxPending
    /\ IF Accepted(user_op) THEN Accept(s, ready, err) ELSE Decline
    /\ call' = [op |-> "update_status", status |-> s, is_ready |-> ready,
                is_error |-> err, user_op |-> user_op,
                ret |-> Accepted(user_op), was_ready |-> is_ready]

\* back_to_prev(prev_status, prev_has_error), run by the Tk event loop once
\* the delay has passed; callbacks with the same delay run in the order they
\* were registered.
back_to_prev ==
    /\ pending # << >>
    /\ LET prev == Head(pending) IN
        /\ IF ~is_ready
           THEN _update_status(prev.status, FALSE, prev.has_error)
           ELSE UNCHANGED <<status, has_error, text_color>>
        /\ call' = [op |-> "back_to_prev", status |-> prev.status,
                    is_error |-> prev.has_error, busy |-> Head(held)]
    /\ pending' = Tail(pending)
    /\ held' = Tail(held)
    /\ UNCHANGED <<is_ready, dataset, pc, accepted_status>>

----------------------------------------------------------------------------
\* Global.load_pkl_database, run once after the Global has been made.

\* self.update_status(status='Loading database...', is_ready=False)
LoadStart ==
    /\ pc[Loader] = "start"
    /\ update_status("Loading database...", FALSE, FALSE, FALSE)
    /\ pc' = [pc EXCEPT ![Loader] = "loading"]
    /\ UNCHANGED dataset
    /\ held' = held

\* self.dataset = DatasetPlus.load_default_database()
LoadDataset ==
    /\ pc[Loader] = "loading"
    /\ dataset' = "database"
    /\ pc' = [pc EXCEPT ![Loader] = "parsed"]
    /\ call' = [op |-> "load_default_database"]
    /\ UNCHANGED <<status, is_ready, has_error, text_color, pending, accepted_status>>
    /\ held' = held

\* self.update_status(is_ready=True): status takes its default, 'Ready'; then
\* self.root.event_generate('<<Database_loaded>>'), which posts an event and
\* touches no field of the Global, and the thread ends.
LoadReady ==
    /\ pc[Loader] = "parsed"
    /\ update_status("Ready", TRUE, FALSE, FALSE)
    /\ pc' = [pc EXCEPT ![Loader] = "done"]
    /\ UNCHANGED dataset
    /\ held' = Reported(Loader)

\* DatasetPlus.load_default_database() raises: control passes to the except
\* clause, which first shows a modal dialog.  (Tk's event_generate is taken
\* not to raise.)
LoadRaise ==
    /\ pc[Loader] = "loading"
    /\ pc' = [pc EXCEPT ![Loader] = "failed"]
    /\ call' = [op |-> "messagebox.showerror"]
    /\ UNCHANGED <<status, is_ready, has_error, text_color, dataset, pending, accepted_status>>
    /\ held' = held

\* self.update_status(status='Error: failed to load database. ' + str(e),
\*                    is_ready=True, is_error=True)
LoadError ==
    /\ pc[Loader] = "failed"
    /\ update_status("Error: failed to load database. e", TRUE, TRUE, FALSE)
    /\ pc' = [pc EXCEPT ![Loader] = "done"]
    /\ UNCHANGED dataset
    /\ held' = Reported(Loader)

----------------------------------------------------------------------------
\* The callers of update_status and show_error: a task is requested by the
\* user (user_op=True, is_ready=False); once accepted it runs in a worker
\* thread, reports progress, and ends by reporting ready itself or through
\* show_error.

\* update_status(status=..., is_ready=False, user_op=True): the task starts
\* only when the call returns True.  The user may ask again for a task that
\* is already running; that request can only be declined.
UserRequest(t) ==
    /\ Accepted(TRUE) => pc[t] = "idle"
    /\ update_status("Running", FALSE, FALSE, TRUE)
    /\ pc' = [pc EXCEPT ![t] = IF Accepted(TRUE) THEN "running" ELSE pc[t]]
    /\ held' = IF Accepted(TRUE) THEN held ELSE Append(held, Busy)
    /\ UNCHANGED dataset

\* update_status(status=..., is_ready=False) from the running task
Progress(t) ==
    /\ pc[t] = "running"
    /\ update_status("Working", FALSE, FALSE, FALSE)
    /\ UNCHANGED <<pc, dataset>>
    /\ held' = held

\* update_status(status=..., is_ready=True) from the running task: it is over
Finish(t) ==
    /\ pc[t] = "running"
    /\ update_status("Done", TRUE, FALSE, FALSE)
    /\ pc' = [pc EXCEPT ![t] = "idle"]
    /\ UNCHANGED dataset
    /\ held' = Reported(t)

\* Global.show_error(exception), first statement:
\* self.update_status(status='Error: ' + str(exception), is_ready=True, is_error=True)
ShowErrorUpdate(t) ==
    /\ pc[t] = "running"
    /\ update_status("Error: e", TRUE, TRUE, FALSE)
    /\ pc' = [pc EXCEPT ![t] = "show_error"]
    /\ UNCHANGED dataset
    /\ held' = Reported(t)

\* Global.show_error(exception), second statement, outside status_mutex:
\* self.is_ready = True; then the exception is raised and the thread ends.
ShowErrorReady(t) ==
    /\ pc[t] = "show_error"
    /\ is_ready' = TRUE
    /\ pc' = [pc EXCEPT ![t] = "idle"]
    /\ call' = [op |-> "show_error"]
    /\ UNCHANGED <<status, has_error, text_color, dataset, pending, accepted_status>>
    /\ held' = held

\* While the status gate runs, no aggregation and no Info is in play.
MetaIdle ==
    /\ meta_list = << >>
    /\ image_name = None
    /\ lower_thr = << >>
    /\ upper_thr = << >>
    /\ conjunction = [set |-> FALSE]
    /\ mean_imgs = [set |-> FALSE]
    /\ result = [kind |-> "none"]
    /\ mpc = "idle"

InfoIdle ==
    /\ info = << >>
    /\ name = << >>

Init ==
    /\ GlobalInit
    /\ call = NoCall
    /\ held = << >>
    /\ MetaIdle
    /\ InfoIdle

Next ==
    \/ (LoadStart /\ UNCHANGED <<metaVars, infoVars>>)
    \/ (LoadDataset /\ UNCHANGED <<metaVars, infoVars>>)
    \/ (LoadReady /\ UNCHANGED <<metaVars, infoVars>>)
    \/ (LoadRaise /\ UNCHANGED <<metaVars, infoVars>>)
    \/ (LoadError /\ UNCHANGED <<metaVars, infoVars>>)
    \/ (back_to_prev /\ UNCHANGED <<metaVars, infoVars>>)
    \/ \E t \in Tasks :
        \/ (UserRequest(t) /\ UNCHANGED <<metaVars, infoVars>>)
        \/ (Progress(t) /\ UNCHANGED <<metaVars, infoVars>>)
        \/ (Finish(t) /\ UNCHANGED <<metaVars, infoVars>>)
        \/ (ShowErrorUpdate(t) /\ UNCHANGED <<metaVars, infoVars>>)
        \/ (ShowErrorReady(t) /\ UNCHANGED <<metaVars, infoVars>>)

Spec == Init /\ [][Next]_vars

(***************************************************************************)
(* src/metaplus.py: MetaAnalysisPlus.conjunction and MetaAnalysisPlus.mean *)
(*                                                                         *)
(* An analysis is a record [info, images]; images maps image names to      *)
(* voxel tuples.  A Python value that may be None is << >> (None) or <<x>>.*)
(***************************************************************************)
Voxels == 1..NumVoxels

Raise(exc)    == [kind |-> "raise", exc |-> exc]
Return(value) == [kind |-> "return", value |-> value]

\* All sequences over S of length at most n.
SeqsUpTo(S, n) == UNION {[1..k -> S] : k \in 0..n}

\* np.sum(bools, axis=0) at voxel k: how many of the first i rows are True there.
RECURSIVE np_sum(_, _, _)
np_sum(bools, i, k) ==
    IF i = 0 THEN 0
    ELSE np_sum(bools, i - 1, k) + (IF bools[i][k] THEN 1 ELSE 0)

\* Mutant for C3: the either-or branch combines its two comparisons with &.
threshold_mask_always_and(img) ==
    IF upper_thr = << >> THEN [k \in DOMAIN img |-> img[k] > lower_thr[1]]
    ELSE IF lower_thr = << >> THEN [k \in DOMAIN img |-> img[k] < upper_thr[1]]
    ELSE [k \in DOMAIN img |-> (img[k] > lower_thr[1]) /\ (img[k] < upper_thr[1])]

\* The boolean array conjunction builds from one source image (lines 212-225):
\* src > lower; src < upper; (src > lower) & (src < upper); (lower < src) | (src < upper).
threshold_mask(img) ==
    IF upper_thr = << >> THEN [k \in DOMAIN img |-> img[k] > lower_thr[1]]
    ELSE IF lower_thr = << >> THEN [k \in DOMAIN img |-> img[k] < upper_thr[1]]
    ELSE IF lower_thr[1] < upper_thr[1]
         THEN [k \in DOMAIN img |-> (img[k] > lower_thr[1]) /\ (img[k] < upper_thr[1])]
         ELSE [k \in DOMAIN img |-> (lower_thr[1] < img[k]) \/ (img[k] < upper_thr[1])]

\* comp_name, the text of the criterion
comp_name ==
    IF upper_thr = << >> THEN ">" \o ToString(lower_thr[1])
    ELSE IF lower_thr = << >> THEN "<" \o ToString(upper_thr[1])
    ELSE IF lower_thr[1] < upper_thr[1]
         THEN ToString(lower_thr[1]) \o "-" \o ToString(upper_thr[1])
         ELSE ">" \o ToString(lower_thr[1]) \o "or" \o "<" \o ToString(upper_thr[1])

\* Mutant for C4: the test for equal thresholds is missing.
thresholds_invalid_no_equal_test == lower_thr = << >> /\ upper_thr = << >>

\* The two tests conjunction starts with (lines 205-208).
thresholds_invalid ==
    \/ (lower_thr = << >> /\ upper_thr = << >>)
    \/ lower_thr = upper_thr

\* conjunction, lines 205-208: the argument checks.
ConjunctionCheck ==
    /\ mpc = "conjunction"
    /\ IF thresholds_invalid
       THEN /\ result' = Raise("ValueError")
            /\ mpc' = "conjunction.done"
       ELSE /\ result' = result
            /\ mpc' = "conjunction.compute"
    /\ UNCHANGED <<meta_list, image_name, lower_thr, upper_thr, conjunction, mean_imgs>>

\* conjunction, lines 210-226: src_imgs and the count.  meta.images[image_name]
\* raises KeyError for an analysis without that image; over an empty list
\* np.sum gives the scalar 0.
ConjunctionCompute ==
    /\ mpc = "conjunction.compute"
    /\ IF \E i \in 1..Len(meta_list) : image_name \notin DOMAIN meta_list[i].images
       THEN /\ result' = Raise("KeyError")
            /\ mpc' = "conjunction.done"
            /\ conjunction' = conjunction
       ELSE /\ LET bools == [i \in 1..Len(meta_list) |->
                                threshold_mask(meta_list[i].images[image_name])]
               IN conjunction' =
                    [set |-> TRUE,
                     value |-> IF Len(meta_list) = 0 THEN << 0 >>
                               ELSE [k \in Voxels |-> np_sum(bools, Len(meta_list), k)]]
            /\ result' = result
            /\ mpc' = "conjunction.build"
    /\ UNCHANGED <<meta_list, image_name, lower_thr, upper_thr, mean_imgs>>

\* conjunction, lines 228-233, with expression and extra_info left at their
\* defaults: meta_list[0] raises IndexError for an empty list.
ConjunctionBuild ==
    /\ mpc = "conjunction.build"
    /\ IF Len(meta_list) = 0
       THEN result' = Raise("IndexError")
       ELSE result' = Return([info |-> [based_on |-> image_name, criterion |-> comp_name],
                              images |-> [n \in {"conjunction"} |-> conjunction.value]])
    /\ mpc' = "conjunction.done"
    /\ UNCHANGED <<meta_list, image_name, lower_thr, upper_thr, conjunction, mean_imgs>>

----------------------------------------------------------------------------
\* Floating point.  A voxel value is a binary floating-point number of Prec
\* significant bits, written as an integer (the values used are positive and
\* at least 2^Prec, so every sum and mean of them has an integer unit in the
\* last place).  Arithmetic rounds to nearest, ties to even, as IEEE 754 does.
RECURSIVE Pow2(_)
Pow2(n) == IF n = 0 THEN 1 ELSE 2 * Pow2(n - 1)

\* The unit in the last place of num/den: the largest power of two u with
\* u * 2^(Prec-1) <= num/den.
RECURSIVE Ulp(_, _, _)
Ulp(num, den, u) ==
    IF num >= 2 * u * Pow2(Prec - 1) * den THEN Ulp(num, den, 2 * u) ELSE u

\* num/den rounded to Prec significant bits.
fl_round(num, den) ==
    LET u  == Ulp(num, den, 1)
        m  == num \div (den * u)
        r2 == 2 * (num - m * den * u)
    IN  IF r2 > den * u THEN (m + 1) * u
        ELSE IF r2 < den * u THEN m * u
        ELSE IF m % 2 = 0 THEN m * u ELSE (m + 1) * u

fl_add(a, b) == fl_round(a + b, 1)
fl_div(a, n) == fl_round(a, n)

\* The sum np.mean accumulates along axis 0: row after row, each addition rounded.
RECURSIVE fl_sum(_, _)
fl_sum(xs, i) == IF i = 1 THEN xs[1] ELSE fl_add(fl_sum(xs, i - 1), xs[i])

\* Mutant for C5: the sum is divided by one less than the number of images.
np_mean_off_by_one(xs) == fl_div(fl_sum(xs, Len(xs)), Len(xs) - 1)

\* np.mean(xs, axis=0) at one voxel: the rounded sum divided by the count.
np_mean(xs) == fl_div(fl_sum(xs, Len(xs)), Len(xs))

\* Mutant for C6: any difference between the name sets counts as a missing name.
names_missing_or_extra ==
    \E i \in 1..Len(meta_list) :
        DOMAIN meta_list[i].images # DOMAIN meta_list[1].images

\* Whether some meta.images[img] of the loop at lines 179-180 raises KeyError:
\* some analysis lacks an image name that the first one has.
names_missing ==
    \E img \in DOMAIN meta_list[1].images :
        \E i \in 1..Len(meta_list) : img \notin DOMAIN meta_list[i].images

\* mean, lines 172-175: the empty list and the list of one.
MeanCheck ==
    /\ mpc = "mean"
    /\ IF Len(meta_list) = 0
       THEN /\ result' = Raise("ValueError")
            /\ mpc' = "mean.done"
       ELSE IF Len(meta_list) = 1
       THEN /\ result' = Return(meta_list[1])
            /\ mpc' = "mean.done"
       ELSE /\ result' = result
            /\ mpc' = "mean.compute"
    /\ UNCHANGED <<meta_list, image_name, lower_thr, upper_thr, conjunction, mean_imgs>>

\* mean, lines 178-181: one mean image for every image name of the first analysis.
MeanCompute ==
    /\ mpc = "mean.compute"
    /\ IF names_missing
       THEN /\ result' = Raise("KeyError")
            /\ mean_imgs' = [set |-> TRUE]
       ELSE LET imgs == [img \in DOMAIN meta_list[1].images |->
                            [k \in Voxels |->
                                np_mean([i \in 1..Len(meta_list) |->
                                            meta_list[i].images[img][k]])]]
            IN  /\ mean_imgs' = [set |-> TRUE, value |-> imgs]
                /\ result' = Return([info |-> meta_list[1].info, images |-> imgs])
    /\ mpc' = "mean.done"
    /\ UNCHANGED <<meta_list, image_name, lower_thr, upper_thr, conjunction>>

----------------------------------------------------------------------------
\* The inputs of the aggregation calls.
ImageNames == {"pA", "pFgA"}
Thresholds == {<< >>, << -1 >>, << 1 >>}
ConjValues == {-2, 0, 2}
MeanValues == {2 * (Pow2(Prec) - 2), 2 * (Pow2(Prec) - 1)}

\* Analyses given to conjunction: with or without the image 'pA'.
ConjMetas ==
    {[info |-> "info", images |-> im] :
        im \in UNION {[S -> [Voxels -> ConjValues]] : S \in {{}, {"pA"}}}}

\* Analyses given to mean: any set of image names, one volume under each.
MeanMetas ==
    {[info |-> "info", images |-> [n \in S |-> vol]] :
        S \in SUBSET ImageNames, vol \in [Voxels -> MeanValues]}

InitConjunction ==
    /\ mpc = "conjunction"
    /\ meta_list \in SeqsUpTo(ConjMetas, MaxConjList)
    /\ image_name = "pA"
    /\ lower_thr \in Thresholds
    /\ upper_thr \in Thresholds

InitMean ==
    /\ mpc = "mean"
    /\ meta_list \in SeqsUpTo(MeanMetas, MaxMeanList)
    /\ image_name = None
    /\ lower_thr = << >>
    /\ upper_thr = << >>

InitMeta ==
    /\ GlobalInit
    /\ call = NoCall
    /\ held = << >>
    /\ InfoIdle
    /\ InitConjunction \/ InitMean
    /\ conjunction = [set |-> FALSE]
    /\ mean_imgs = [set |-> FALSE]
    /\ result = [kind |-> "none"]

NextMeta ==
    \/ (ConjunctionCheck /\ UNCHANGED <<guiVars, call, held, infoVars>>)
    \/ (ConjunctionCompute /\ UNCHANGED <<guiVars, call, held, infoVars>>)
    \/ (ConjunctionBuild /\ UNCHANGED <<guiVars, call, held, infoVars>>)
    \/ (MeanCheck /\ UNCHANGED <<guiVars, call, held, infoVars>>)
    \/ (MeanCompute /\ UNCHANGED <<guiVars, call, held, infoVars>>)

SpecMeta == InitMeta /\ [][NextMeta]_vars

(***************************************************************************)
(* src/metaplus.py: NsInfo.shorten_expr and MetaAnalysisPlus.Info          *)
(*                                                                         *)
(* A string is a sequence of characters.                                   *)
(***************************************************************************)
Space       == " "
Tab         == "\t"
Chars       == {"a", Space, Tab, "."}
Punctuation == {"."}          \* the characters of string.punctuation among Chars
Whitespace  == {Space, Tab}   \* the whitespace characters among Chars

\* Mutant for C7: the expression is split at any whitespace character.
RECURSIVE split_first_any_whitespace(_)
split_first_any_whitespace(expr) ==
    IF expr = << >> \/ Head(expr) \in Whitespace THEN << >>
    ELSE << Head(expr) >> \o split_first_any_whitespace(Tail(expr))

\* expr.split(' ', maxsplit=1)[0]: the characters before the first space.
RECURSIVE split_first(_)
split_first(expr) ==
    IF expr = << >> \/ Head(expr) = Space THEN << >>
    ELSE << Head(expr) >> \o split_first(Tail(expr))

\* str.lstrip(punctuation) and str.rstrip(punctuation)
RECURSIVE lstrip(_)
lstrip(str) ==
    IF str # << >> /\ Head(str) \in Punctuation THEN lstrip(Tail(str)) ELSE str

RECURSIVE rstrip(_)
rstrip(str) ==
    IF str # << >> /\ str[Len(str)] \in Punctuation
    THEN rstrip(SubSeq(str, 1, Len(str) - 1)) ELSE str

\* NsInfo.shorten_expr(expr)
shorten_expr(expr) == rstrip(lstrip(split_first(expr)))

\* Info.get_shorthand(), on the mapping d
get_shorthand(d) ==
    IF "expression" \in DOMAIN d
    THEN shorten_expr(d["expression"]) \o
            (IF "contrary expression" \in DOMAIN d
             THEN << "_", "v", "s", "_" >> \o shorten_expr(d["contrary expression"])
             ELSE << >>)
    ELSE << >>

\* Info.__init__(*args, **kwargs): the mapping is filled, then the name is derived.
InfoConstruct(d) ==
    /\ call.op = "none"
    /\ info' = d
    /\ name' = get_shorthand(d)
    /\ call' = [op |-> "Info", made_from |-> d, renamed |-> FALSE]

\* info[key] = value, the item assignment Info inherits from OrderedDict
InfoSetItem(key, value) ==
    /\ call.op # "none"
    /\ info' = [k \in DOMAIN info \cup {key} |-> IF k = key THEN value ELSE info[k]]
    /\ name' = name
    /\ call' = [call EXCEPT !.op = "__setitem__"]

\* Info.set_name(name)
set_name(n) ==
    /\ call.op # "none"
    /\ name' = n
    /\ info' = info
    /\ call' = [call EXCEPT !.op = "set_name", !.renamed = TRUE]

\* The inputs.
Expressions == SeqsUpTo(Chars, MaxExprLen)
InfoKeys    == {"expression", "contrary expression"}
InfoDicts   == UNION {[S -> Expressions] : S \in SUBSET InfoKeys}
NewValues   == {<< ".", "a" >>}
NewNames    == {<< "a", "_" >>}

InitInfo ==
    /\ GlobalInit
    /\ call = NoCall
    /\ held = << >>
    /\ MetaIdle
    /\ InfoIdle

NextInfo ==
    \/ (call.op = "none" /\ \E d \in InfoDicts : InfoConstruct(d) /\ UNCHANGED <<guiVars, held, metaVars>>)
    \/ \E key \in InfoKeys, value \in NewValues :
          InfoSetItem(key, value) /\ UNCHANGED <<guiVars, held, metaVars>>
    \/ \E n \in NewNames : set_name(n) /\ UNCHANGED <<guiVars, held, metaVars>>

SpecInfo == InitInfo /\ [][NextInfo]_vars

(***************************************************************************)
(* Claims about the status gate (specification Spec).                      *)
(***************************************************************************)
ErrorMessages == {"Error: e", "Error: failed to load database. e"}
Running == Busy \cap Tasks

\* C1: update_status declines a request exactly when it is user-initiated and
\* the app is busy; then it returns False, leaves is_ready as it was and shows
\* the warning as an error status.  In every other case it returns True and
\* status, has_error and is_ready take the requested values.
C1_UpdateStatusContract ==
    call.op = "update_status" =>
        /\ (~call.ret) <=> (call.user_op /\ ~call.was_ready)
        /\ (~call.ret) =>
              /\ is_ready = call.was_ready
              /\ status = Warning
              /\ has_error
        /\ call.ret =>
              /\ status = call.status
              /\ has_error = call.is_error
              /\ is_ready = call.is_ready

\* A user request has just been declined while a task was reporting progress.
C1_Witness ==
    /\ call.op = "update_status"
    /\ call.user_op
    /\ ~call.ret
    /\ pending # << >>
    /\ pending[Len(pending)].status = "Working"
    /\ status = Warning

\* C2 (as claimed): a user request made while the app is busy is declined,
\* and once the back_to_prev callback it registered has run while a task that
\* kept the app busy then is still running (has not reported since), status
\* and has_error are what they were just before the declined request.
C2_RevertToPrior ==
    /\ (call.op = "update_status" /\ call.user_op /\ ~call.was_ready) => ~call.ret
    /\ (call.op = "back_to_prev" /\ call.busy # {}) =>
          /\ status = call.status
          /\ has_error = call.is_error

\* C8 (as claimed): after show_error has run, and after load_pkl_database has
\* handled a load failure, is_ready and has_error are True and the status is
\* the error message.
C8_ReadyAfterFailure ==
    /\ call.op = "show_error" =>
          /\ is_ready
          /\ has_error
          /\ status \in ErrorMessages
    /\ (call.op = "update_status" /\ call.status = "Error: failed to load database. e") =>
          /\ is_ready
          /\ has_error
          /\ status = call.status

\* C9 (as claimed): while a task whose user request was accepted has not yet
\* reported ready, every other user request is declined, so two tasks never
\* hold the gate at the same time.
C9_MutualExclusion == Cardinality(Running) <= 1

\* C10 (as claimed): once every registered back_to_prev callback has run, the
\* status is not the warning and is the status of the most recent accepted
\* update_status call.
C10_RevertKeepsNewest ==
    pending = << >> => (status # Warning /\ status = accepted_status)

(***************************************************************************)
(* Claims about conjunction and mean (specification SpecMeta).             *)
(***************************************************************************)
ImagesOf(i) == meta_list[i].images
NamesOf(i)  == DOMAIN meta_list[i].images
Abs(x)      == IF x < 0 THEN -x ELSE x

\* The threshold predicate of C3 on one voxel value.
C3_Passes(v) ==
    IF lower_thr # << >> /\ upper_thr = << >> THEN v > lower_thr[1]
    ELSE IF lower_thr = << >> /\ upper_thr # << >> THEN v < upper_thr[1]
    ELSE IF lower_thr[1] < upper_thr[1] THEN v > lower_thr[1] /\ v < upper_thr[1]
    ELSE v > lower_thr[1] \/ v < upper_thr[1]

\* C3: conjunction returns an object with exactly one image, 'conjunction',
\* whose value at each voxel is the number of analyses whose image_name value
\* there satisfies the threshold predicate; it lies between 0 and len(meta_list).
C3_ConjunctionCounts ==
    (mpc = "conjunction.done" /\ result.kind = "return") =>
        /\ DOMAIN result.value.images = {"conjunction"}
        /\ DOMAIN result.value.images["conjunction"] = Voxels
        /\ \A k \in Voxels :
              /\ result.value.images["conjunction"][k] =
                    Cardinality({i \in 1..Len(meta_list) :
                                    C3_Passes(ImagesOf(i)[image_name][k])})
              /\ result.value.images["conjunction"][k] \in 0..Len(meta_list)

\* conjunction has returned the either-or count lower_thr=1 > upper_thr=-1 of
\* two analyses: one passes at the first voxel, both at the second.
C3_Witness ==
    /\ mpc = "conjunction.done"
    /\ result.kind = "return"
    /\ lower_thr = << 1 >>
    /\ upper_thr = << -1 >>
    /\ Len(meta_list) = 2
    /\ result.value.images["conjunction"] = << 1, 2 >>

C4_BadThresholds ==
    \/ (lower_thr = << >> /\ upper_thr = << >>)
    \/ (lower_thr # << >> /\ upper_thr # << >> /\ lower_thr[1] = upper_thr[1])

\* C4 (amended): conjunction with neither threshold or with equal thresholds,
\* and mean with an empty list, raise ValueError before any aggregate is
\* computed; conjunction with valid thresholds and an empty list raises too
\* (IndexError) and returns nothing, but only after the count over the empty
\* list has been computed.
C4_InvalidArguments ==
    /\ (mpc \in {"conjunction.compute", "conjunction.build", "conjunction.done"}
            /\ C4_BadThresholds) =>
          /\ mpc = "conjunction.done"
          /\ result = Raise("ValueError")
          /\ ~conjunction.set
    /\ (mpc = "conjunction.done" /\ ~C4_BadThresholds /\ Len(meta_list) = 0) =>
          /\ result = Raise("IndexError")
          /\ conjunction.set
    /\ (mpc \in {"mean.compute", "mean.done"} /\ Len(meta_list) = 0) =>
          /\ mpc = "mean.done"
          /\ result = Raise("ValueError")
          /\ ~mean_imgs.set

\* conjunction has ended on an empty list with valid thresholds.
C4_Witness ==
    /\ mpc = "conjunction.done"
    /\ Len(meta_list) = 0
    /\ lower_thr = << 1 >>
    /\ upper_thr = << -1 >>
    /\ result = Raise("IndexError")

\* C4 (as claimed): each invalid call raises before any aggregate is computed.
C4_RaiseBeforeCompute ==
    /\ (mpc = "conjunction.done" /\ (C4_BadThresholds \/ Len(meta_list) = 0)) =>
          /\ result.kind = "raise"
          /\ ~conjunction.set
    /\ (mpc = "mean.done" /\ Len(meta_list) = 0) =>
          /\ result.kind = "raise"
          /\ ~mean_imgs.set

C5_Identical == \A i \in 1..Len(meta_list) : meta_list[i] = meta_list[1]

\* C5 (amended): mean of a single-element list returns that element; mean of
\* N >= 2 identical analyses returns the same image names, and each voxel is
\* the rounded sum divided by N: equal to the input for N = 2, and for larger
\* N within the relative error N*u/(1 - N*u) of it, u = 2^-Prec.
C5_MeanOfIdentical ==
    /\ (mpc = "mean.done" /\ Len(meta_list) = 1) => result = Return(meta_list[1])
    /\ (mpc = "mean.done" /\ Len(meta_list) >= 2 /\ C5_Identical) =>
          /\ result.kind = "return"
          /\ result.value.info = meta_list[1].info
          /\ DOMAIN result.value.images = NamesOf(1)
          /\ \A n \in NamesOf(1) : \A k \in Voxels :
                LET r == result.value.images[n][k]
                    v == ImagesOf(1)[n][k]
                    N == Len(meta_list)
                IN  /\ N = 2 => r = v
                    /\ Abs(r - v) * (Pow2(Prec) - N) <= N * v

\* mean of three identical analyses has returned an image that differs from theirs.
C5_Witness ==
    /\ mpc = "mean.done"
    /\ Len(meta_list) = 3
    /\ C5_Identical
    /\ NamesOf(1) = ImageNames
    /\ result.kind = "return"
    /\ result.value.images # ImagesOf(1)

\* C5 (as claimed): mean of N >= 1 identical analyses returns the very same
\* names and voxel values.
C5_MeanIsIdentity ==
    (mpc = "mean.done" /\ Len(meta_list) >= 1 /\ C5_Identical) =>
        /\ result.kind = "return"
        /\ result.value.images = ImagesOf(1)

\* C6 (amended): for two or more analyses mean raises (KeyError) exactly when
\* some element lacks an image name that the first element has; a name that
\* only a later element has is ignored.  When it returns, the result's names
\* are those of the first element, which every element has.
C6_MeanNames ==
    (mpc = "mean.done" /\ Len(meta_list) >= 2) =>
        /\ (result.kind = "raise") <=>
              (\E i \in 1..Len(meta_list) : ~(NamesOf(1) \subseteq NamesOf(i)))
        /\ result.kind = "raise" => result.exc = "KeyError"
        /\ result.kind = "return" =>
              /\ DOMAIN result.value.images = NamesOf(1)
              /\ \A i \in 1..Len(meta_list) : DOMAIN result.value.images \subseteq NamesOf(i)

\* mean has returned although the second analysis has a name the first lacks.
C6_Witness ==
    /\ mpc = "mean.done"
    /\ Len(meta_list) = 2
    /\ NamesOf(1) = {"pA"}
    /\ NamesOf(2) = ImageNames
    /\ result.kind = "return"

\* C6 (as claimed): with name sets that are not all equal mean returns
\* nothing, and a returned result has the name set of every element.
C6_UniformNamesRequired ==
    (mpc = "mean.done" /\ Len(meta_list) >= 2) =>
        /\ (\E i \in 1..Len(meta_list) : NamesOf(i) # NamesOf(1)) =>
              result.kind # "return"
        /\ result.kind = "return" =>
              \A i \in 1..Len(meta_list) : NamesOf(i) = DOMAIN result.value.images

(***************************************************************************)
(* Claims about Info and its name (specification SpecInfo).                *)
(***************************************************************************)
\* r is what is left of expr's first token, the characters before the first
\* character of Delims, once the punctuation at its two ends is taken away.
C7_IsShort(expr, r, Delims) ==
    \E t \in 0..Len(expr) :
        /\ \A p \in 1..t : expr[p] \notin Delims
        /\ t < Len(expr) => expr[t + 1] \in Delims
        /\ \E i \in 1..(t + 1), j \in 0..t :
              /\ r = SubSeq(expr, i, j)
              /\ \A p \in 1..(i - 1) : expr[p] \in Punctuation
              /\ \A p \in (j + 1)..t : expr[p] \in Punctuation
              /\ i <= j => (expr[i] \notin Punctuation /\ expr[j] \notin Punctuation)

\* The name a mapping with 'expression' gives, tokens ending at Delims.
C7_Named(d, n, Delims) ==
    \E i \in 0..Len(n) :
        /\ C7_IsShort(d["expression"], SubSeq(n, 1, i), Delims)
        /\ IF "contrary expression" \in DOMAIN d
           THEN /\ Len(n) >= i + 4
                /\ SubSeq(n, i + 1, i + 4) = << "_", "v", "s", "_" >>
                /\ C7_IsShort(d["contrary expression"], SubSeq(n, i + 5, Len(n)), Delims)
           ELSE i = Len(n)

====
